---- MODULE Spec2Model ----
(***************************************************************************)
(* couchutil: the checkpointed change-feed consumer (changes.py), the      *)
(* reservation manager (reservation.py) and the paged view iterator        *)
(* (iterview.py), modelled as state machines.                              *)
(***************************************************************************)
EXTENDS Integers, Sequences, FiniteSets, TLC

(***************************************************************************)
(* Bounds of the model.                                                    *)
(***************************************************************************)
\* The database's update sequence never passes MaxSeq.
MaxSeq == 3
\* batch_size is drawn from 1..MaxBatch.
MaxBatch == 2
\* The documents of the consumed database.
DocIds == {"d1", "d2", "d3"}
\* The callers of the reservation manager.
Callers == {"c1", "c2"}
\* The resource ids they reserve, and the manager's possible prefixes (strings as
\* sequences of characters).
Ids == {<<"a">>, <<"b">>}
PrefixTexts == {<<"w", "/">>}

\* iterview is called with batch in 0..MaxIterBatch and limit None or in 0..MaxLimit.
MaxIterBatch == 2
MaxLimit == 3
\* Other clients add or delete at most MaxViewChanges rows during one iteration.
MaxViewChanges == 2
\* The view's rows are [key, id] with key in Keys and id in RowIds; a view is
\* ordered by key and, for equal keys, by document id (RowIds in that order).
\* A row is identified by its key and id: views in which one document emits
\* the same key more than once are not modelled.
Keys == {1, 2}
RowIds == <<"x", "y", "z">>

\* Python's None, as a local value or a function result.
None == -1

VARIABLES
    \* ---- the consumed database (changes.py's db) ----
    docs,        \* docs[d] = [seq, deleted]: d's entry in the by-sequence index; seq 0: never written
    update_seq,  \* the database's last sequence number
    hasChanges,  \* hasattr(db, 'changes')
    \* ---- ChangesProcessor ----
    statefile,   \* the checkpoint file: [exists, content], content a string of digits
    batch_size,  \* self.batch_size
    mode,        \* "once", "poll" (forever and poll_delay) or "forever"
    cpc,         \* the consumer process's position; "idle": no process is running
    phase,       \* "once": inside run_once; "continuous": inside run_forever's for loop
    startkey,    \* the local startkey
    results,     \* the change entries in hand: o['results'] in run_once, <<o>> in run_forever
    rows,        \* the rows of the _all_docs request of handle_changes
    i,           \* the row handle_changes is at
    since,       \* options['since'] of the continuous stream
    pending,     \* results of the simulated stream's long poll that are not yet yielded
    handled,     \* handled[d]: the last handler that completed for d ("none", "update", "delete")
    outcome,     \* how the last run ended: "none", "running", "done", "error", "killed"
    \* ---- history of the consumer ----
    fetched,     \* sequences of the change entries fetched in this run
    done,        \* sequences of the entries whose handler completed in this run
    doneEver,    \* sequences of the entries whose handler completed in any run
    lastRead,    \* the position last returned by _read_startkey (0: None)
    lost,        \* the entries in hand when the last run died inside handle_changes
    clean,       \* "yes": one run_once so far, feed unchanged; "restarted": run_once runs, each
                 \* but the last killed just after a checkpoint write, feed unchanged; else "no"
    \* ---- the reservation database and manager (reservation.py) ----
    store,       \* store[k] = [exists, lease]: the document with _id k
    prefix,      \* self.prefix: [isNone, text]
    \* ---- one caller of the manager at a time per element of Callers ----
    rop,         \* the call in progress or last made: "none", "reserve", "release",
                 \* "reservation", "change" (reservation_change)
    rid,         \* its id (new_id of reservation_change)
    oid,         \* old_id of reservation_change
    rpc,         \* the caller's position in the call; "done": it has returned or raised
    rdoc,        \* reservation_doc of reservation(): [isNone, fresh, lease], fresh: its
                 \* _rev is the current revision of the document in the database
    reldoc,      \* doc of release()
    exc,         \* the exception being handled (what a bare raise re-raises)
    result,      \* what the caller observed: "ok" or the exception raised
    \* ---- history of the call in progress ----
    undisturbed, \* no other caller has deleted or updated the reservation document
                 \* while the call held it
    oldKept,     \* reservation_change(new_id, old_id): old_id was reserved when the
                 \* call began and no other caller has changed its document since
    \* ---- iterview (iterview.py) ----
    view,        \* the rows the view has now: a set of [key, id]
    batch,       \* the argument batch
    limit,       \* the local limit: None or the rows still to yield
    options,     \* options' startkey and startkey_docid: [has, key, id]
    irows,       \* rows: the page fetched last
    iy,          \* the position of the for loop of line 39 in the page
    ipc,         \* the generator's position: "start", "fetch", "yield", "after",
                 \* "done" (exhausted) or "raised" (ValueError)
    yielded,     \* the rows yielded so far, in order
    \* ---- history of the iteration ----
    fetches,     \* the number of db.view requests made
    view0,       \* the rows of the view when the iteration began
    limit0,      \* the caller's limit
    touched      \* the rows other clients added or deleted during the iteration

rvars == <<store, prefix, rop, rid, oid, rpc, rdoc, reldoc, exc, result, undisturbed,
           oldKept>>

cvars == <<docs, update_seq, hasChanges, statefile, batch_size, mode, cpc, phase,
           startkey, results, rows, i, since, pending, handled, outcome,
           fetched, done, doneEver, lastRead, lost, clean>>

ivars == <<view, batch, limit, options, irows, iy, ipc, yielded, fetches, view0,
           limit0, touched>>

vars == <<cvars, rvars, ivars>>

(***************************************************************************)
(* Pure helpers of changes.py.                                             *)
(***************************************************************************)
RECURSIVE PyStr(_)
\* str(n) for n >= 0: the decimal digits, most significant first.
PyStr(n) == IF n < 10 THEN <<n>> ELSE PyStr(n \div 10) \o <<n % 10>>

RECURSIVE DigitsValue(_)
DigitsValue(s) ==
    IF s = <<>> THEN 0 ELSE 10 * DigitsValue(SubSeq(s, 1, Len(s) - 1)) + s[Len(s)]

\* int(text): ValueError (here None) on the empty string.
PyInt(s) == IF s = <<>> THEN None ELSE DigitsValue(s)

\* _read_startkey: IOError (no file) and ValueError both give None.
ReadStartkey(f) == IF ~f.exists THEN None ELSE PyInt(f.content)

\* The file after open(statefile, 'wb'): it exists and is empty.
Truncated == [exists |-> TRUE, content |-> <<>>]

\* Mutant: the sequence after the last handled one is persisted.
Written_OffByOne(k) == [exists |-> TRUE, content |-> PyStr(k + 1)]

\* The file after _write_startkey(k) has completed.
Written(k) == [exists |-> TRUE, content |-> PyStr(k)]

RECURSIVE ChangesFrom(_, _, _, _)
\* The entries of the by-sequence index dd from sequence s on, at most n of them.
ChangesFrom(dd, last, s, n) ==
    IF n = 0 \/ s > last THEN <<>>
    ELSE IF \E d \in DocIds : dd[d].seq = s
         THEN <<[id |-> CHOOSE d \in DocIds : dd[d].seq = s, seq |-> s]>>
              \o ChangesFrom(dd, last, s + 1, n - 1)
         ELSE ChangesFrom(dd, last, s + 1, n)

\* `if startkey: options['since'] = startkey`: None and 0 both read from the origin.
SinceOf(k) == IF k = None \/ k = 0 THEN 0 ELSE k

\* _changes(db, since=k, limit=n)['results'].
Changes(dd, last, k, n) == ChangesFrom(dd, last, SinceOf(k) + 1, n)

\* _changes without a limit.
ChangesAll(dd, last, k) == ChangesFrom(dd, last, SinceOf(k) + 1, MaxSeq + 1)

SeqsOf(r) == {r[k].seq : k \in 1..Len(r)}
EntriesOf(r) == {r[k] : k \in 1..Len(r)}

\* db.view('_all_docs', keys=ids, include_docs=True): one row per key, in order.
AllDocs(dd, r) ==
    [k \in 1..Len(r) |->
        [key |-> r[k].id,
         doc |-> IF dd[r[k].id].seq = 0 \/ dd[r[k].id].deleted THEN "None" ELSE "doc"]]

\* handle_changes dispatches on row.doc is None.
HandlerFor(row) == IF row.doc = "None" THEN "delete" ELSE "update"

\* Mutant: one past the last sequence in hand.
LastSeq_PlusOne(r) == r[Len(r)].seq + 1

\* results[-1]['seq'] / o['seq']: the sequence to persist.
LastSeq(r) == r[Len(r)].seq

(***************************************************************************)
(* The reservation database and the helpers of ReservationManager.         *)
(***************************************************************************)
NoPrefix == [isNone |-> TRUE, text |-> <<>>]
Prefixes == {NoPrefix} \cup {[isNone |-> FALSE, text |-> t] : t \in PrefixTexts}

\* _add_prefix, lines 82-85.
AddPrefix(pf, id) == IF pf.isNone THEN id ELSE pf.text \o id

\* _remove_prefix, lines 87-90: id[len(self.prefix):].
RemovePrefix(pf, k) == IF pf.isNone THEN k ELSE SubSeq(k, Len(pf.text) + 1, Len(k))

\* Mutant: release looks the id up without the prefix.
ReleaseDocId_NoPrefix(pf, id) == id

\* release, lines 67-68: the prefix joined in place.
ReleaseDocId(pf, id) == IF ~pf.isNone THEN pf.text \o id ELSE id

\* Every _id the managers can write.
DocKeys == {AddPrefix(pf, id) : pf \in Prefixes, id \in Ids}

\* A local variable that holds no document (None).
DocNone == [isNone |-> TRUE, fresh |-> FALSE, lease |-> FALSE]

\* db.get(k): the document with its (current) _rev, or None.
DbGet(st, k) ==
    IF st[k].exists
    THEN [isNone |-> FALSE, fresh |-> TRUE, lease |-> st[k].lease]
    ELSE DocNone

\* A copy of a document after the database gave that document a new revision.
Stale(doc) == IF doc.isNone THEN doc ELSE [doc EXCEPT !.fresh = FALSE]

\* Mutant: create never reports a conflict.
CreateConflicts_Never(st, k) == FALSE

\* db.create of a document whose _id exists raises ResourceConflict.
CreateConflicts(st, k) == st[k].exists

\* The store after db.create(_reservation_doc(id)): the document, with a lease.
Created(st, k) == [st EXCEPT ![k] = [exists |-> TRUE, lease |-> TRUE]]

\* db.delete(doc) succeeds when doc is a document with the current _rev.
DeleteOk(st, k, doc) == ~doc.isNone /\ st[k].exists /\ doc.fresh

\* The store after a successful delete.
Deleted(st, k) == [st EXCEPT ![k] = [exists |-> FALSE, lease |-> FALSE]]

\* db.update([doc]) takes effect when doc carries the current _rev.
UpdateOk(st, k, doc) == ~doc.isNone /\ st[k].exists /\ doc.fresh

\* The store after db.update([doc]) took effect: doc's fields, a new revision.
Updated(st, k, doc) == [st EXCEPT ![k] = [exists |-> TRUE, lease |-> doc.lease]]

\* reserved() without a key range: every row of _all_docs, the prefix stripped.
Reserved(st, pf) == {RemovePrefix(pf, k) : k \in {x \in DocKeys : st[x].exists}}

\* No caller has called the manager yet.
NoCalls ==
    /\ rop = [p \in Callers |-> "none"]
    /\ rid = [p \in Callers |-> <<"a">>]
    /\ oid = [p \in Callers |-> <<"a">>]
    /\ rpc = [p \in Callers |-> "done"]
    /\ rdoc = [p \in Callers |-> DocNone]
    /\ reldoc = [p \in Callers |-> DocNone]
    /\ exc = [p \in Callers |-> "none"]
    /\ result = [p \in Callers |-> "none"]
    /\ undisturbed = [p \in Callers |-> TRUE]
    /\ oldKept = [p \in Callers |-> TRUE]

\* An empty database and no call yet.
NoReservations ==
    /\ store = [k \in DocKeys |-> [exists |-> FALSE, lease |-> FALSE]]
    /\ NoCalls

(***************************************************************************)
(* Pure helpers of iterview.py, and the view it reads.                     *)
(***************************************************************************)
Min(a, b) == IF a <= b THEN a ELSE b

\* No startkey_docid.
NoDocid == ""

\* The position of a document id in the ids' order.
IdRank(id) == IF id = NoDocid THEN 0 ELSE CHOOSE k \in 1..Len(RowIds) : RowIds[k] = id

\* Every row a view can have.
Rows == [key : Keys, id : {RowIds[k] : k \in 1..Len(RowIds)}]

\* The view's order: by key, then by document id.
Before(r, q) == r.key < q.key \/ (r.key = q.key /\ IdRank(r.id) < IdRank(q.id))

RECURSIVE Sorted(_)
\* The rows of S in the view's order.
Sorted(S) ==
    IF S = {} THEN <<>>
    ELSE LET m == CHOOSE r \in S : \A q \in S \ {r} : Before(r, q)
         IN <<m>> \o Sorted(S \ {m})

\* The first n elements of a sequence (all of it when it is shorter).
Take(seq, n) == SubSeq(seq, 1, Min(n, Len(seq)))

\* options without startkey: the view is read from its first row.
NoStart == [has |-> FALSE, key |-> 0, id |-> NoDocid]

\* Mutant: the next page starts at the last row's key, without startkey_docid.
NextStart_KeyOnly(row) == [has |-> TRUE, key |-> row.key, id |-> NoDocid]

\* Line 51: startkey and startkey_docid of the next request, from rows[-1].
NextStart(row) == [has |-> TRUE, key |-> row.key, id |-> row.id]

\* Mutant: the start row itself is left out.
FromStart_Exclusive(S, o) ==
    IF ~o.has THEN S
    ELSE {r \in S : r.key > o.key \/ (r.key = o.key /\ IdRank(r.id) > IdRank(o.id))}

\* The rows of S at or after the start o (startkey is inclusive).
FromStart(S, o) ==
    IF ~o.has THEN S
    ELSE {r \in S : r.key > o.key \/ (r.key = o.key /\ IdRank(r.id) >= IdRank(o.id))}

\* list(db.view(name, wrapper, **options)) with options' limit n and start o.
DbView(S, o, n) == Take(Sorted(FromStart(S, o)), n)

\* The local limit: None, or a number.
NoLimit == [isNone |-> TRUE, n |-> 0]
Limit(k) == [isNone |-> FALSE, n |-> k]

\* Line 32: loop_limit = min(limit or batch, batch); None and 0 are falsy.
LoopLimit(l, b) == Min(IF l.isNone \/ l.n = 0 THEN b ELSE l.n, b)

\* Mutant: the limit counter is not decremented.
Decremented_Not(l, len, b) == l

\* Lines 43-44: limit -= min(len(rows), batch), when there is a limit.
Decremented(l, len, b) == IF l.isNone THEN l ELSE Limit(l.n - Min(len, b))

\* No iteration: iterview has not been called.
NoIteration ==
    /\ view = {}
    /\ batch = 1
    /\ limit = NoLimit
    /\ options = NoStart
    /\ irows = <<>>
    /\ iy = 0
    /\ ipc = "done"
    /\ yielded = <<>>
    /\ fetches = 0
    /\ view0 = {}
    /\ limit0 = NoLimit
    /\ touched = {}

(***************************************************************************)
(* Initial states of the consumer.                                         *)
(***************************************************************************)
DocStates == [seq : 0..MaxSeq, deleted : BOOLEAN]

MaxOf(S) == IF S = {} THEN 0 ELSE CHOOSE m \in S : \A x \in S : x <= m

\* A by-sequence index: one entry per written document, sequences distinct.
ValidDocs(dd) ==
    /\ \A d \in DocIds : dd[d].seq = 0 => ~dd[d].deleted
    /\ \A d, e \in DocIds : (d # e /\ dd[d].seq # 0) => dd[d].seq # dd[e].seq

NoLocals ==
    /\ startkey = None
    /\ results = <<>>
    /\ rows = <<>>
    /\ i = 0
    /\ since = None
    /\ pending = <<>>

NoLocals_next ==
    /\ startkey' = None
    /\ results' = <<>>
    /\ rows' = <<>>
    /\ i' = 0
    /\ since' = None
    /\ pending' = <<>>

InitChanges ==
    /\ docs \in {dd \in [DocIds -> DocStates] : ValidDocs(dd)}
    /\ update_seq = MaxOf({docs[d].seq : d \in DocIds})
    /\ hasChanges = FALSE
    /\ statefile = [exists |-> FALSE, content |-> <<>>]
    /\ batch_size \in 1..MaxBatch
    /\ mode = "once"
    /\ cpc = "idle"
    /\ phase = "once"
    /\ NoLocals
    /\ handled = [d \in DocIds |-> "none"]
    /\ outcome = "none"
    /\ fetched = {}
    /\ done = {}
    /\ doneEver = {}
    /\ lastRead = 0
    /\ lost = {}
    /\ clean = "yes"
    /\ prefix = NoPrefix
    /\ NoReservations
    /\ NoIteration

(***************************************************************************)
(* ChangesProcessor.                                                       *)
(***************************************************************************)
\* __init__ and __call__: a process starts in one of the three modes, on a db
\* with or without a changes method (which only run_forever's stream depends on).
Call ==
    /\ cpc = "idle"
    /\ mode' \in {"once", "poll", "forever"}
    /\ hasChanges' \in (IF mode' = "forever" THEN BOOLEAN ELSE {FALSE})
    /\ cpc' = "run_once"
    /\ phase' = "once"
    /\ outcome' = "running"
    /\ clean' = IF mode' = "once" /\ (outcome = "none" \/ (outcome = "killed" /\ clean = "restarted"))
                THEN clean ELSE "no"
    /\ UNCHANGED <<docs, update_seq, statefile, batch_size, startkey,
                   results, rows, i, since, pending, handled,
                   fetched, done, doneEver, lastRead, lost>>
    /\ UNCHANGED <<rvars, ivars>>

\* run_once, line 61: startkey = self._read_startkey().
RunOnceRead ==
    /\ cpc = "run_once"
    /\ startkey' = ReadStartkey(statefile)
    /\ lastRead' = SinceOf(ReadStartkey(statefile))
    /\ cpc' = "changes"
    /\ UNCHANGED <<docs, update_seq, hasChanges, statefile, batch_size, mode, phase,
                   results, rows, i, since, pending, handled, outcome,
                   fetched, done, doneEver, lost, clean>>
    /\ UNCHANGED <<rvars, ivars>>

\* run_once, lines 65-70: fetch a page; an empty page ends the loop.
RunOnceChanges ==
    /\ cpc = "changes"
    /\ LET r == Changes(docs, update_seq, startkey, batch_size) IN
        IF r = <<>>
        THEN /\ cpc' = CASE mode = "once" -> "idle"
                         [] mode = "poll" -> "run_once"
                         [] OTHER -> "stream_open"
             /\ outcome' = IF mode = "once" THEN "done" ELSE outcome
             /\ mode' = IF mode = "once" THEN "once" ELSE mode
             /\ fetched' = IF mode = "once" THEN {} ELSE fetched
             /\ done' = IF mode = "once" THEN {} ELSE done
             /\ startkey' = None
             /\ lost' = {}
             /\ UNCHANGED <<results>>
        ELSE /\ cpc' = "view"
             /\ results' = r
             /\ fetched' = fetched \cup SeqsOf(r)
             /\ UNCHANGED <<startkey, outcome, mode, done, lost>>
    /\ UNCHANGED <<docs, update_seq, hasChanges, statefile, batch_size, phase,
                   rows, i, since, pending, handled, doneEver, lastRead, clean>>
    /\ UNCHANGED <<rvars, ivars>>

\* handle_changes, line 76: the _all_docs request for the ids in hand.
HandleChangesView ==
    /\ cpc = "view"
    /\ rows' = AllDocs(docs, results)
    /\ i' = 1
    /\ cpc' = "handle"
    /\ lost' = {}
    /\ UNCHANGED <<docs, update_seq, hasChanges, statefile, batch_size, mode, phase,
                   startkey, results, since, pending, handled, outcome,
                   fetched, done, doneEver, lastRead, clean>>
    /\ UNCHANGED <<rvars, ivars>>

\* handle_changes, lines 77-80: the handler of row i returns; after the last row
\* handle_changes returns and the caller goes on to _write_startkey.
HandleRow ==
    /\ cpc = "handle"
    /\ i <= Len(rows)
    /\ handled' = [handled EXCEPT ![rows[i].key] = HandlerFor(rows[i])]
    /\ done' = done \cup {results[i].seq}
    /\ doneEver' = doneEver \cup {results[i].seq}
    /\ i' = i + 1
    /\ cpc' = IF i = Len(rows) THEN "write" ELSE "handle"
    /\ UNCHANGED <<docs, update_seq, hasChanges, statefile, batch_size, mode, phase,
                   startkey, results, rows, since, pending, outcome,
                   fetched, lastRead, lost, clean>>
    /\ UNCHANGED <<rvars, ivars>>

\* The run ends with the process gone.
RunEnds(how) ==
    /\ cpc' = "idle"
    /\ outcome' = how
    /\ mode' = "once"
    /\ hasChanges' = FALSE
    /\ phase' = "once"
    /\ fetched' = {}
    /\ done' = {}
    /\ NoLocals_next

\* Mutant: the handler's error is swallowed and handle_changes goes on.
HandlerRaises_Swallowed ==
    /\ cpc = "handle"
    /\ i <= Len(rows)
    /\ i' = i + 1
    /\ cpc' = IF i = Len(rows) THEN "write" ELSE "handle"
    /\ UNCHANGED <<docs, update_seq, hasChanges, statefile, batch_size, mode, phase,
                   startkey, results, rows, since, pending, handled, outcome,
                   fetched, done, doneEver, lastRead, lost, clean>>
    /\ UNCHANGED <<rvars, ivars>>

\* handle_update / handle_delete of row i raises: nothing catches it.
HandlerRaises ==
    /\ cpc = "handle"
    /\ i <= Len(rows)
    /\ RunEnds("error")
    /\ lost' = EntriesOf(results)
    /\ clean' = "no"
    /\ UNCHANGED <<docs, update_seq, statefile, batch_size, handled, doneEver, lastRead>>
    /\ UNCHANGED <<rvars, ivars>>

\* _write_startkey, line 95: open(statefile, 'wb') truncates the file.
WriteOpen ==
    /\ cpc = "write"
    /\ statefile' = Truncated
    /\ cpc' = "flush"
    /\ UNCHANGED <<docs, update_seq, hasChanges, batch_size, mode, phase,
                   startkey, results, rows, i, since, pending, handled, outcome,
                   fetched, done, doneEver, lastRead, lost, clean>>
    /\ UNCHANGED <<rvars, ivars>>

\* _write_startkey, line 95: write(str(startkey)) reaches the file; the loop goes on.
WriteFlush ==
    /\ cpc = "flush"
    /\ statefile' = Written(LastSeq(results))
    /\ startkey' = IF phase = "once" THEN LastSeq(results) ELSE startkey
    /\ cpc' = IF phase = "once" THEN "changes" ELSE "stream"
    /\ results' = <<>>
    /\ rows' = <<>>
    /\ i' = 0
    /\ UNCHANGED <<docs, update_seq, hasChanges, batch_size, mode, phase,
                   since, pending, handled, outcome,
                   fetched, done, doneEver, lastRead, lost, clean>>
    /\ UNCHANGED <<rvars, ivars>>

\* run_forever, lines 51-56: read the checkpoint again and open the stream.
StreamOpen ==
    /\ cpc = "stream_open"
    /\ startkey' = ReadStartkey(statefile)
    /\ since' = ReadStartkey(statefile)
    /\ lastRead' = SinceOf(ReadStartkey(statefile))
    /\ phase' = "continuous"
    /\ cpc' = "stream"
    /\ UNCHANGED <<docs, update_seq, hasChanges, statefile, batch_size, mode,
                   results, rows, i, pending, handled, outcome,
                   fetched, done, doneEver, lost, clean>>
    /\ UNCHANGED <<rvars, ivars>>

\* run_forever, line 56, db.changes(feed='continuous'): the next change arrives.
StreamNext ==
    /\ cpc = "stream"
    /\ hasChanges
    /\ LET r == Changes(docs, update_seq, since, 1) IN
        /\ r # <<>>
        /\ results' = r
        /\ since' = LastSeq(r)
        /\ fetched' = fetched \cup SeqsOf(r)
    /\ cpc' = "view"
    /\ UNCHANGED <<docs, update_seq, hasChanges, statefile, batch_size, mode, phase,
                   startkey, rows, i, pending, handled, outcome,
                   done, doneEver, lastRead, lost, clean>>
    /\ UNCHANGED <<rvars, ivars>>

\* _changes_sim_continuous, lines 122-128: yield the next result of the last long
\* poll, or poll again (no limit) when all of them are yielded.
StreamNextSim ==
    /\ cpc = "stream"
    /\ ~hasChanges
    /\ IF pending # <<>>
       THEN /\ results' = <<Head(pending)>>
            /\ pending' = Tail(pending)
            /\ UNCHANGED <<since, fetched>>
       ELSE LET r == ChangesAll(docs, update_seq, since) IN
            /\ r # <<>>
            /\ results' = <<Head(r)>>
            /\ pending' = Tail(r)
            /\ since' = LastSeq(r)
            /\ fetched' = fetched \cup SeqsOf(r)
    /\ cpc' = "view"
    /\ UNCHANGED <<docs, update_seq, hasChanges, statefile, batch_size, mode, phase,
                   startkey, rows, i, handled, outcome,
                   done, doneEver, lastRead, lost, clean>>
    /\ UNCHANGED <<rvars, ivars>>

\* _changes_sim_continuous, lines 129-131: a long poll that returns no results
\* yields {'last_seq': ...}; run_forever's o['id'] raises KeyError on it.
StreamEndSim ==
    /\ cpc = "stream"
    /\ ~hasChanges
    /\ pending = <<>>
    /\ ChangesAll(docs, update_seq, since) = <<>>
    /\ RunEnds("error")
    /\ UNCHANGED <<docs, update_seq, statefile, batch_size, handled, doneEver, lastRead,
                   lost, clean>>
    /\ UNCHANGED <<rvars, ivars>>

\* Just after a checkpoint write of run_once: a batch is complete, the next not fetched.
AtBatchBoundary == cpc = "changes" /\ done # {}

\* The process is killed, at any step.
Kill ==
    /\ cpc # "idle"
    /\ RunEnds("killed")
    /\ lost' = IF cpc \in {"view", "handle"} THEN EntriesOf(results) ELSE lost
    /\ clean' = IF clean # "no" /\ AtBatchBoundary THEN "restarted" ELSE "no"
    /\ UNCHANGED <<docs, update_seq, statefile, batch_size, handled, doneEver, lastRead>>
    /\ UNCHANGED <<rvars, ivars>>

\* Another client writes (or deletes) document d.
DocUpdate ==
    /\ update_seq < MaxSeq
    /\ \E d \in DocIds, del \in BOOLEAN :
        /\ del => (docs[d].seq # 0 /\ ~docs[d].deleted)
        /\ docs' = [docs EXCEPT ![d] = [seq |-> update_seq + 1, deleted |-> del]]
    /\ update_seq' = update_seq + 1
    /\ clean' = "no"
    /\ UNCHANGED <<hasChanges, statefile, batch_size, mode, cpc, phase,
                   startkey, results, rows, i, since, pending, handled, outcome,
                   fetched, done, doneEver, lastRead, lost>>
    /\ UNCHANGED <<rvars, ivars>>

NextChanges ==
    \/ Call
    \/ RunOnceRead
    \/ RunOnceChanges
    \/ HandleChangesView
    \/ HandleRow
    \/ HandlerRaises
    \/ WriteOpen
    \/ WriteFlush
    \/ StreamOpen
    \/ StreamNext
    \/ StreamNextSim
    \/ StreamEndSim
    \/ Kill
    \/ DocUpdate

SpecChanges == InitChanges /\ [][NextChanges]_vars

(***************************************************************************)
(* ReservationManager: callers p, each making one call at a time; every    *)
(* request to the database is one step.                                    *)
(***************************************************************************)
\* The consumer, with no process and an empty database, when only the manager runs.
NoConsumer ==
    /\ docs = [d \in DocIds |-> [seq |-> 0, deleted |-> FALSE]]
    /\ update_seq = 0
    /\ hasChanges = FALSE
    /\ statefile = [exists |-> FALSE, content |-> <<>>]
    /\ batch_size = 1
    /\ mode = "once"
    /\ cpc = "idle"
    /\ phase = "once"
    /\ NoLocals
    /\ handled = [d \in DocIds |-> "none"]
    /\ outcome = "none"
    /\ fetched = {}
    /\ done = {}
    /\ doneEver = {}
    /\ lastRead = 0
    /\ lost = {}
    /\ clean = "yes"

InitReservation ==
    /\ NoConsumer
    /\ NoIteration
    /\ prefix \in Prefixes
    /\ NoReservations

\* The _id of the reservation document the call creates (reserve, reservation,
\* reservation_change) or releases (release).
NewDoc(p) ==
    IF rop[p] = "release" THEN ReleaseDocId(prefix, rid[p]) ELSE AddPrefix(prefix, rid[p])

\* reservation_change with old_id # new_id: the only call with a second document.
HasOld(p) == rop[p] = "change" /\ rid[p] # oid[p]

\* Mutant: reservation_change releases new_id.
RelDoc_New(p) == ReleaseDocId(prefix, rid[p])

\* The _id that release() fetches and deletes: release(id), or release(old_id)
\* inside reservation_change.
RelDoc(p) == ReleaseDocId(prefix, IF rop[p] = "release" THEN rid[p] ELSE oid[p])

\* The _id of old_id's document in reservation_change.
OldDoc(p) == ReleaseDocId(prefix, oid[p])

\* The call has created its reservation document and has neither confirmed it
\* nor rolled it back (reserve: nor returned it).
Holding(p) ==
    /\ rop[p] \in {"reserve", "reservation"} \/ HasOld(p)
    /\ rpc[p] \in {"get", "section", "rel_get", "rel_delete", "confirm", "rollback"}

\* No document: the second argument of Step when the step writes nothing.
NoKey == <<>>

\* One step of caller p: its position, what its caller has observed, its locals
\* (a call that has returned or raised keeps none), and the database when the
\* step changed document k (NoKey: it changed nothing) into nstore. Every other
\* caller's copy of k is from then on a stale revision.
Step(p, k, nstore, npc, nresult, nrdoc, nreldoc, nexc) ==
    /\ rpc' = [rpc EXCEPT ![p] = npc]
    /\ result' = [result EXCEPT ![p] = nresult]
    /\ exc' = [exc EXCEPT ![p] = IF npc = "done" THEN "none" ELSE nexc]
    /\ rdoc' = [q \in Callers |->
                 IF q = p THEN (IF npc = "done" THEN DocNone ELSE nrdoc)
                 ELSE IF k # NoKey /\ NewDoc(q) = k THEN Stale(rdoc[q]) ELSE rdoc[q]]
    /\ reldoc' = [q \in Callers |->
                   IF q = p THEN (IF npc = "done" THEN DocNone ELSE nreldoc)
                   ELSE IF k # NoKey /\ RelDoc(q) = k THEN Stale(reldoc[q]) ELSE reldoc[q]]
    /\ store' = nstore
    /\ undisturbed' = [q \in Callers |->
                        IF q = p THEN (npc = "done" \/ undisturbed[p])
                        ELSE undisturbed[q]
                               /\ ~(Holding(q) /\ k = NewDoc(q) /\ rpc[p] # "create")]
    /\ oldKept' = [q \in Callers |->
                    IF q = p THEN (npc = "done" \/ oldKept[p])
                    ELSE oldKept[q] /\ ~(HasOld(q) /\ rpc[q] # "done" /\ k = OldDoc(q))]
    /\ UNCHANGED <<prefix, rop, rid, oid>>
    /\ UNCHANGED <<cvars, ivars>>

\* A step that changes nothing in the database.
Local(p, npc, nresult, nrdoc, nreldoc, nexc) ==
    Step(p, NoKey, store, npc, nresult, nrdoc, nreldoc, nexc)

\* Mutant: reservation_change reserves new_id even when old_id = new_id.
FirstStep_AlwaysReserves(o, id, old) ==
    CASE o = "release" -> "rel_get"
      [] OTHER -> "create"

\* Where a call starts: release at its db.get (line 69); reservation_change with
\* old_id = new_id at its yield (lines 52-53); the others at reserve's db.create.
FirstStep(o, id, old) ==
    CASE o = "release" -> "rel_get"
      [] o = "change" /\ id = old -> "section"
      [] OTHER -> "create"

\* A caller whose last call is over starts o(id), or o(id, old) for
\* reservation_change.
Invoke(p, o, id, old) ==
    /\ rpc[p] = "done"
    /\ o # "change" => old = id
    /\ rop' = [rop EXCEPT ![p] = o]
    /\ rid' = [rid EXCEPT ![p] = id]
    /\ oid' = [oid EXCEPT ![p] = old]
    /\ rpc' = [rpc EXCEPT ![p] = FirstStep(o, id, old)]
    /\ undisturbed' = [undisturbed EXCEPT ![p] = TRUE]
    /\ oldKept' = [oldKept EXCEPT ![p] =
                    (o = "change" /\ id # old) => store[ReleaseDocId(prefix, old)].exists]
    /\ rdoc' = [rdoc EXCEPT ![p] = DocNone]
    /\ reldoc' = [reldoc EXCEPT ![p] = DocNone]
    /\ exc' = [exc EXCEPT ![p] = "none"]
    /\ result' = [result EXCEPT ![p] = "none"]
    /\ UNCHANGED <<store, prefix>>
    /\ UNCHANGED <<cvars, ivars>>

\* A caller starts reserve(id), release(id), reservation(id) or
\* reservation_change(id, old).
Begin(p) ==
    \E o \in {"reserve", "release", "reservation", "change"}, id \in Ids, old \in Ids :
        Invoke(p, o, id, old)

\* reserve, line 61: db.create(self._reservation_doc(id)); a ResourceConflict is
\* raised as AlreadyExists (lines 63-64), which nothing in this module catches.
Create(p) ==
    /\ rpc[p] = "create"
    /\ IF CreateConflicts(store, NewDoc(p))
       THEN Local(p, "done", "AlreadyExists", rdoc[p], reldoc[p], exc[p])
       ELSE Step(p, NewDoc(p), Created(store, NewDoc(p)),
                 "get", result[p], rdoc[p], reldoc[p], exc[p])

\* reserve, line 62: return self.db.get(docid), a document or None;
\* reservation() keeps it as reservation_doc and enters the section.
Get(p) ==
    /\ rpc[p] = "get"
    /\ IF rop[p] = "reserve"
       THEN Local(p, "done", IF DbGet(store, NewDoc(p)).isNone THEN "None" ELSE "ok",
                  rdoc[p], reldoc[p], exc[p])
       ELSE Local(p, "section", result[p], DbGet(store, NewDoc(p)), reldoc[p], exc[p])

\* The caller's protected section (the body of the with statement) completes:
\* reservation() goes on to line 39, reservation_change to release(old_id)
\* (line 57), or to its end when old_id = new_id (line 53).
SectionReturns(p) ==
    /\ rpc[p] = "section"
    /\ IF rop[p] = "change" /\ rid[p] = oid[p]
       THEN Local(p, "done", "ok", rdoc[p], reldoc[p], exc[p])
       ELSE Local(p, IF HasOld(p) THEN "rel_get" ELSE "confirm",
                  result[p], rdoc[p], reldoc[p], exc[p])

\* The protected section raises: the error is thrown into reservation() at its
\* yield (line 38) and caught at line 41; with old_id = new_id nothing catches it.
SectionRaises(p) ==
    /\ rpc[p] = "section"
    /\ IF rop[p] = "change" /\ rid[p] = oid[p]
       THEN Local(p, "done", "SectionError", rdoc[p], reldoc[p], exc[p])
       ELSE Local(p, "rollback", result[p], rdoc[p], reldoc[p], "SectionError")

\* release, line 69: doc = self.db.get(id).
ReleaseGet(p) ==
    /\ rpc[p] = "rel_get"
    /\ Local(p, "rel_delete", result[p], rdoc[p], DbGet(store, RelDoc(p)), exc[p])

\* release, line 70: self.db.delete(doc). It raises when doc is None or no longer
\* the current revision; inside reservation_change (line 57) the error surfaces
\* in the body of `with self.reservation(new_id)`, so reservation() catches it.
ReleaseDelete(p) ==
    /\ rpc[p] = "rel_delete"
    /\ IF DeleteOk(store, RelDoc(p), reldoc[p])
       THEN IF rop[p] = "release"
            THEN Step(p, RelDoc(p), Deleted(store, RelDoc(p)),
                      "done", "ok", rdoc[p], reldoc[p], exc[p])
            ELSE Step(p, RelDoc(p), Deleted(store, RelDoc(p)),
                      "confirm", result[p], rdoc[p], DocNone, exc[p])
       ELSE IF rop[p] = "release"
            THEN Local(p, "done", "ReleaseError", rdoc[p], reldoc[p], exc[p])
            ELSE Local(p, "rollback", result[p], rdoc[p], DocNone, "ReleaseError")

\* Mutant: the lease is not removed before the update.
ConfirmedDoc_KeepsLease(doc) == doc

\* reservation, line 39: del reservation_doc['lease'].
ConfirmedDoc(doc) == [doc EXCEPT !.lease = FALSE]

\* reservation, lines 39-40, after the body of the with statement completed.
\* del raises on None or on a document without lease; db.update([doc]) with a
\* stale _rev either reports the conflict in its return value, which is
\* ignored, or raises (both client behaviours exist). Every error lands in the
\* bare except of line 41.
Confirm(p) ==
    /\ rpc[p] = "confirm"
    /\ IF rdoc[p].isNone \/ ~rdoc[p].lease
       THEN Local(p, "rollback", result[p], rdoc[p], reldoc[p], "ConfirmError")
       ELSE IF UpdateOk(store, NewDoc(p), rdoc[p])
       THEN Step(p, NewDoc(p), Updated(store, NewDoc(p), ConfirmedDoc(rdoc[p])),
                 "done", "ok", rdoc[p], reldoc[p], exc[p])
       ELSE \E raises \in BOOLEAN :
                IF raises
                THEN Local(p, "rollback", result[p], ConfirmedDoc(rdoc[p]), reldoc[p],
                           "ConfirmError")
                ELSE Local(p, "done", "ok", rdoc[p], reldoc[p], exc[p])

\* Mutant: the document handed to the rollback delete carries no _rev (the dict
\* that was given to create).
RollbackDoc_NoRev(p) == Stale(rdoc[p])

\* reservation, line 45: the document handed to self.db.delete.
RollbackDoc(p) == rdoc[p]

\* Mutant: the bare raise re-raises the delete's error even when there is none.
Reraised_Delete(p, deleteFailed) == "RollbackError"

\* reservation, line 48: the bare raise of Python 2 re-raises the exception
\* handled last, which is the delete's when the delete of line 45 failed.
Reraised(p, deleteFailed) == IF deleteFailed THEN "RollbackError" ELSE exc[p]

\* reservation, lines 41-48: the rollback. db.delete fails on None or on a stale
\* _rev; the failure is logged (line 47) and the bare raise follows.
Rollback(p) ==
    /\ rpc[p] = "rollback"
    /\ IF DeleteOk(store, NewDoc(p), RollbackDoc(p))
       THEN Step(p, NewDoc(p), Deleted(store, NewDoc(p)),
                 "done", Reraised(p, FALSE), rdoc[p], reldoc[p], exc[p])
       ELSE Local(p, "done", Reraised(p, TRUE), rdoc[p], reldoc[p], exc[p])

\* The race of reserve calls starts from a database that may already hold
\* reservations, under this manager's prefix and under others'. Those are
\* confirmed ones (no lease); reserve only makes documents with a lease, which
\* tells the documents made during the race from the earlier ones.
InitReserveRace ==
    /\ NoConsumer
    /\ NoIteration
    /\ prefix \in Prefixes
    /\ NoCalls
    /\ store \in [DocKeys -> {[exists |-> FALSE, lease |-> FALSE],
                              [exists |-> TRUE, lease |-> FALSE]}]

\* Each caller makes one call of reserve and no other.
ReserveOnce(p) ==
    /\ rop[p] = "none"
    /\ \E id \in Ids : Invoke(p, "reserve", id, id)

NextReserveRace ==
    \/ \E p \in Callers : ReserveOnce(p)
    \/ \E p \in Callers : Create(p)
    \/ \E p \in Callers : Get(p)

SpecReserveRace == InitReserveRace /\ [][NextReserveRace]_vars

NextReservation ==
    \/ \E p \in Callers : Begin(p)
    \/ \E p \in Callers : Create(p)
    \/ \E p \in Callers : Get(p)
    \/ \E p \in Callers : SectionReturns(p)
    \/ \E p \in Callers : SectionRaises(p)
    \/ \E p \in Callers : ReleaseGet(p)
    \/ \E p \in Callers : ReleaseDelete(p)
    \/ \E p \in Callers : Confirm(p)
    \/ \E p \in Callers : Rollback(p)

SpecReservation == InitReservation /\ [][NextReservation]_vars

(***************************************************************************)
(* iterview: one iteration of the generator, consumed to its end, over a   *)
(* view that other clients may change.                                     *)
(***************************************************************************)
InitIterview ==
    /\ NoConsumer
    /\ prefix = NoPrefix
    /\ NoReservations
    /\ view \in SUBSET Rows
    /\ batch \in 0..MaxIterBatch
    /\ limit \in {NoLimit} \cup {Limit(k) : k \in 0..MaxLimit}
    /\ options = NoStart
    /\ irows = <<>>
    /\ iy = 0
    /\ ipc = "start"
    /\ yielded = <<>>
    /\ fetches = 0
    /\ view0 = view
    /\ limit0 = limit
    /\ touched = {}

\* Lines 23-29: the checks of batch and limit.
IterStart ==
    /\ ipc = "start"
    /\ ipc' = IF batch <= 0 \/ (~limit.isNone /\ limit.n <= 0) THEN "raised" ELSE "fetch"
    /\ UNCHANGED <<view, batch, limit, options, irows, iy, yielded, fetches, view0,
                   limit0, touched>>
    /\ UNCHANGED <<cvars, rvars>>

\* Lines 32-36: one request for loop_limit + 1 rows.
IterFetch ==
    /\ ipc = "fetch"
    /\ irows' = DbView(view, options, LoopLimit(limit, batch) + 1)
    /\ iy' = 1
    /\ fetches' = fetches + 1
    /\ ipc' = "yield"
    /\ UNCHANGED <<view, batch, limit, options, yielded, view0, limit0, touched>>
    /\ UNCHANGED <<cvars, rvars>>

\* Lines 39-40: the next of the first loop_limit rows of the page is yielded.
IterYield ==
    /\ ipc = "yield"
    /\ iy <= Min(Len(irows), LoopLimit(limit, batch))
    /\ yielded' = Append(yielded, irows[iy])
    /\ iy' = iy + 1
    /\ UNCHANGED <<view, batch, limit, options, irows, ipc, fetches, view0, limit0,
                   touched>>
    /\ UNCHANGED <<cvars, rvars>>

\* Lines 43-51, after the for loop: the limit counter, the end test, and the
\* start of the next page.
IterAfter ==
    /\ ipc = "yield"
    /\ iy > Min(Len(irows), LoopLimit(limit, batch))
    /\ limit' = Decremented(limit, Len(irows), batch)
    /\ IF Len(irows) <= batch \/ (~limit'.isNone /\ limit'.n = 0)
       THEN ipc' = "done" /\ UNCHANGED options
       ELSE ipc' = "fetch" /\ options' = NextStart(irows[Len(irows)])
    /\ UNCHANGED <<view, batch, irows, iy, yielded, fetches, view0, limit0, touched>>
    /\ UNCHANGED <<cvars, rvars>>

\* Another client's write adds a row to the view or deletes one between two
\* requests of the iteration (the generator reads the view in IterFetch only).
ViewChange ==
    /\ ipc = "fetch"
    /\ \E r \in Rows :
        /\ r \in touched \/ Cardinality(touched) < MaxViewChanges
        /\ view' = IF r \in view THEN view \ {r} ELSE view \cup {r}
        /\ touched' = touched \cup {r}
    /\ UNCHANGED <<batch, limit, options, irows, iy, ipc, yielded, fetches, view0, limit0>>
    /\ UNCHANGED <<cvars, rvars>>

NextIterview ==
    \/ IterStart
    \/ IterFetch
    \/ IterYield
    \/ IterAfter
    \/ ViewChange

SpecIterview == InitIterview /\ [][NextIterview]_vars

(***************************************************************************)
(* Properties of ChangesProcessor.                                         *)
(***************************************************************************)
\* What _read_startkey returns now.
Checkpoint == ReadStartkey(statefile)

\* The checkpoint as a position in the feed: none is the origin.
CheckpointPos(f) == IF ReadStartkey(f) = None THEN 0 ELSE ReadStartkey(f)

\* C1: the persisted checkpoint never names a sequence at or beyond a change
\* entry fetched in this run whose handler has not completed.
C1_CheckpointBehindHandlers ==
    Checkpoint # None => \A s \in fetched : s <= Checkpoint => s \in done

\* C1 witness: a checkpoint written in this run while a later batch is in hand.
C1_Witness ==
    /\ Checkpoint # None
    /\ Checkpoint \in done
    /\ cpc = "handle"
    /\ \E s \in fetched : s > Checkpoint /\ s \notin done

\* C4 (as claimed): the checkpoint never decreases and never passes the latest
\* entry whose handler completed.
C4_CheckpointMonotone ==
    /\ [][lastRead' >= lastRead]_vars
    /\ [](lastRead <= MaxOf(doneEver))

\* The second half of C4 alone.
CheckpointBehindHandled == CheckpointPos(statefile) <= MaxOf(doneEver)

\* The handlers applied to the rows of one handle_changes call, in order.
RECURSIVE ApplyHandlers(_, _)
ApplyHandlers(h, rr) ==
    IF rr = <<>> THEN h
    ELSE ApplyHandlers([h EXCEPT ![Head(rr).key] = HandlerFor(Head(rr))], Tail(rr))

\* An uninterrupted run_once with batch size n over the index dd, from local
\* startkey k and handled state h: the final startkey and handled state.
RECURSIVE RunOnceFrom(_, _, _, _, _)
RunOnceFrom(dd, last, n, k, h) ==
    LET r == Changes(dd, last, k, n) IN
    IF r = <<>> THEN [startkey |-> k, handled |-> h]
    ELSE RunOnceFrom(dd, last, n, LastSeq(r), ApplyHandlers(h, AllDocs(dd, r)))

Uninterrupted ==
    RunOnceFrom(docs, update_seq, batch_size, None, [d \in DocIds |-> "none"])

\* C5: run_once killed just after checkpoint writes and restarted ends with the
\* handled state and the checkpoint of one uninterrupted run_once over the feed.
C5_RestartEquivalence ==
    (clean # "no" /\ cpc = "idle" /\ outcome = "done") =>
        /\ handled = Uninterrupted.handled
        /\ Checkpoint = Uninterrupted.startkey

\* C5 witness: a restarted run has finished a feed of more than one batch.
C5_Witness ==
    /\ clean = "restarted"
    /\ cpc = "idle"
    /\ outcome = "done"
    /\ update_seq > batch_size
    /\ \A d \in DocIds : handled[d] # "none"

\* The entries of `lost` that are still in the feed under the same sequence.
Survivors == {e \in lost : docs[e.id].seq = e.seq}

\* C6: a run that dies inside handle_changes leaves the checkpoint as it was,
\* the next run's first fetch brings the entries of that batch again, and no
\* entry of the feed at or before the checkpoint is without a completed handler.
C6_AtLeastOnce ==
    /\ [](\A d \in DocIds :
            (docs[d].seq >= 1 /\ docs[d].seq <= CheckpointPos(statefile))
                => docs[d].seq \in doneEver)
    /\ [][(cpc \in {"view", "handle"} /\ cpc' = "idle")
            => (statefile' = statefile /\ outcome' \in {"error", "killed"})]_vars
    /\ [][(cpc = "changes" /\ cpc' # "changes" /\ outcome' # "killed" /\ lost # {})
            => Survivors \subseteq EntriesOf(results')]_vars

\* C6 witness: after a handler error with a checkpoint in place, the batch that
\* failed is in hand again.
C6_Witness ==
    /\ lost # {}
    /\ cpc = "view"
    /\ Checkpoint # None
    /\ lost \subseteq EntriesOf(results)


\* C12: the checkpoint save is atomic with respect to load. For a process
\* killed at any step of run_once's _write_startkey(t), what _read_startkey
\* returns afterwards is the token saved before (the loop's startkey) or t,
\* never an absent or partial value.
C12_AtomicSave ==
    [][(phase = "once" /\ cpc \in {"write", "flush"} /\ cpc' = "idle") =>
           ReadStartkey(statefile') \in {startkey, LastSeq(results)}]_vars

\* The change entries the consumer holds in memory: those in hand and, in the
\* simulated stream, the rest of the last long poll's results.
Buffered == Len(results) + Len(pending)

\* C15: in every mode, and whatever the backlog, the consumer never holds more
\* than batch_size + 1 fetched change entries at once.
C15_BoundedBuffer == Buffered <= batch_size + 1

\* Everywhere but in the simulated stream the buffer stays within batch_size.
BoundedOutsideSim == (phase = "once" \/ hasChanges) => Buffered <= batch_size

\* run_forever between two items of the stream: the checkpoint is the sequence
\* of the last entry handled in this run, and the entries not yet taken from
\* the stream come after it.
StreamInOrder ==
    (phase = "continuous" /\ cpc = "stream") =>
        /\ done # {} => Checkpoint = MaxOf(done)
        /\ \A k \in 1..Len(pending) : pending[k].seq > CheckpointPos(statefile)
        /\ results = <<>>

\* C18: run_forever drains the backlog with run_once, opens the stream from the
\* checkpoint the drain left, handles each item and persists its sequence
\* before it takes the next, and processes every item the stream delivers
\* without error, the end-of-stream item of the simulated long-poll stream
\* included: the loop over the stream ends only when the process is killed.
C18_Continuous ==
    /\ [][(cpc = "stream_open" /\ cpc' = "stream") =>
              (since' = Checkpoint /\ results = <<>>)]_vars
    /\ []StreamInOrder
    /\ [][(cpc = "stream" /\ cpc' = "idle") => outcome' = "killed"]_vars

(***************************************************************************)
(* Properties of iterview.                                                 *)
(***************************************************************************)
\* How often row r has been yielded.
Count(r, seq) == Cardinality({k \in 1..Len(seq) : seq[k] = r})

\* ceil(n / b) for b >= 1.
Ceil(n, b) == (n + b - 1) \div b

\* The page fetches the claim allows for n rows: max(1, ceil(n / batch)).
Pages(n, b) == IF n = 0 THEN 1 ELSE Ceil(n, b)

\* No row has been added or deleted since the iteration began.
Static == touched = {}

\* C13: the view does not change, batch >= 1, no limit: the rows are yielded in
\* the view's order (key, then document id), none twice, and when the
\* generator is exhausted it has yielded all N rows in max(1, ceil(N / batch))
\* requests.
C13_AllRowsOnce ==
    (Static /\ limit0.isNone /\ batch >= 1) =>
        /\ yielded = Take(Sorted(view0), Len(yielded))
        /\ fetches <= Pages(Cardinality(view0), batch)
        /\ ipc = "done" =>
               /\ yielded = Sorted(view0)
               /\ fetches = Pages(Cardinality(view0), batch)

C13_Witness ==
    /\ Static /\ limit0.isNone /\ batch = 2 /\ ipc = "done"
    /\ Cardinality(view0) = 5 /\ fetches = 3 /\ Len(yielded) = 5
    /\ yielded[2].key = yielded[3].key

\* C14: the view does not change, batch >= 1, limit L >= 1: the generator yields
\* the first min(L, N) rows in the view's order and stops; it makes another
\* request only after a page of more than batch rows and with fewer than L rows
\* yielded, and before each request the limit counter is L less the rows
\* yielded. With or without changes, never more than L rows are yielded.
C14_Limit ==
    /\ []((~limit0.isNone /\ ipc \notin {"start", "raised"}) =>
            /\ Len(yielded) <= limit0.n
            /\ Static =>
                   /\ yielded = Take(Sorted(view0), Len(yielded))
                   /\ ipc = "fetch" => limit = Limit(limit0.n - Len(yielded))
                   /\ ipc = "done" => yielded = Take(Sorted(view0), limit0.n))
    /\ [][(fetches' = fetches + 1 /\ fetches >= 1 /\ Static /\ ~limit0.isNone) =>
              (Len(irows) > batch /\ Len(yielded) < limit0.n)]_vars

C14_Witness ==
    /\ Static /\ limit0 = Limit(3) /\ batch = 2 /\ ipc = "done"
    /\ Cardinality(view0) = 5 /\ fetches = 2
    /\ yielded = Take(Sorted(view0), 3)

\* The rows that were in the view when the iteration began and that nobody has
\* deleted (or deleted and added again) since.
Stable == view0 \ touched

\* C20: rows are added and deleted between the requests, no limit: a row that
\* is in the view, unchanged, for the whole iteration is never yielded twice,
\* and has been yielded once when the generator is exhausted.
C20_StableRowsOnce ==
    (limit0.isNone /\ batch >= 1) =>
        \A r \in Stable :
            /\ Count(r, yielded) <= 1
            /\ ipc = "done" => Count(r, yielded) = 1

C20_Witness ==
    /\ limit0.isNone /\ ipc = "done" /\ fetches >= 2
    /\ Cardinality(Stable) >= 3
    /\ \E r \in touched \cap view0 \cap view : Count(r, yielded) = 0
    /\ \E r \in touched \ view0 : Count(r, yielded) = 1

(***************************************************************************)
(* Properties of ReservationManager.                                       *)
(***************************************************************************)
\* Callers p and q both call reserve with the same id.
SameReserve(p, q) ==
    p # q /\ rop[p] = "reserve" /\ rop[q] = "reserve" /\ rid[p] = rid[q]

\* No reservation document k existed when the race began (see InitReserveRace).
WasFree(k) == ~(store[k].exists /\ ~store[k].lease)

\* C2: two callers invoke reserve(id) concurrently with the same id while id has
\* no reservation document: in every interleaving of their create and get
\* requests at most one create succeeds, no call returns None, and when both
\* calls are over one has returned the reservation and the other has raised
\* AlreadyExists.
C2_ExactlyOneReserves ==
    \A p, q \in Callers :
        (SameReserve(p, q) /\ WasFree(NewDoc(p))) =>
            /\ ~(rpc[p] = "get" /\ rpc[q] = "get")
            /\ result[p] # "None"
            /\ (rpc[p] = "done" /\ rpc[q] = "done") =>
                   \/ result[p] = "ok" /\ result[q] = "AlreadyExists"
                   \/ result[p] = "AlreadyExists" /\ result[q] = "ok"

C2_Witness ==
    /\ SameReserve("c1", "c2") /\ WasFree(NewDoc("c1"))
    /\ rpc["c1"] = "done" /\ rpc["c2"] = "done"
    /\ result["c1"] = "AlreadyExists" /\ result["c2"] = "ok"

\* C3: mutual exclusion. As long as no other caller deletes or updates the
\* reservation document of a caller that holds it (a release of an id the
\* releasing caller does not hold), no two callers hold the same id at once:
\* no two are inside the protected section of reservation(id), and no reserve
\* of the id succeeds between a holder's reserve and its confirm or rollback.
C3_MutualExclusion ==
    \A p, q \in Callers :
        (p # q /\ Holding(p) /\ Holding(q) /\ NewDoc(p) = NewDoc(q)) =>
            ~undisturbed[p] \/ ~undisturbed[q]

C3_Witness ==
    /\ rop["c1"] = "reservation" /\ rpc["c1"] = "section" /\ undisturbed["c1"]
    /\ rop["c2"] = "reservation" /\ NewDoc("c2") = NewDoc("c1")
    /\ rpc["c2"] = "done" /\ result["c2"] = "AlreadyExists"

\* Caller p's call ends with this step.
Ends(p) == rpc[p] # "done" /\ rpc'[p] = "done"

\* C7: the protected section of reservation(id) raises and no other caller has
\* changed the reservation: when the context manager has unwound, the
\* reservation document of id is gone, the caller observes the section's error,
\* and a reserve(id) would succeed.
C7_RollbackOnError ==
    [][\A p \in Callers :
          (Ends(p) /\ rop[p] = "reservation" /\ exc[p] = "SectionError" /\ undisturbed[p]) =>
              /\ ~store'[NewDoc(p)].exists
              /\ result'[p] = "SectionError"
              /\ ~CreateConflicts(store', NewDoc(p))]_vars

C7_Witness ==
    /\ rop["c1"] = "reservation" /\ rpc["c1"] = "done" /\ result["c1"] = "SectionError"
    /\ ~store[NewDoc("c1")].exists
    /\ rop["c2"] = "none"

\* C8: reservation(id) whose reservation no other caller changes: between the
\* reserve and the exit of the context manager the document of prefix+id exists
\* with its lease; when the protected section has completed, the call exits
\* normally and leaves the document in place without the lease.
C8_Confirm ==
    /\ [](\A p \in Callers :
            (rop[p] = "reservation" /\ Holding(p) /\ undisturbed[p]) =>
                store[NewDoc(p)].exists /\ store[NewDoc(p)].lease)
    /\ [][\A p \in Callers :
            (rop[p] = "reservation" /\ rpc[p] = "confirm" /\ undisturbed[p]) =>
                /\ Ends(p)
                /\ result'[p] = "ok"
                /\ store'[NewDoc(p)].exists
                /\ ~store'[NewDoc(p)].lease
            \/ rpc'[p] = "confirm"]_vars

C8_Witness ==
    /\ rop["c1"] = "reservation" /\ rpc["c1"] = "done" /\ result["c1"] = "ok"
    /\ store[NewDoc("c1")].exists /\ ~store[NewDoc("c1")].lease
    /\ rop["c2"] = "none"

\* C9: reservation_change(new, old) with new # old, old reserved when the call
\* begins, and no other caller changing the two reservations: if the call
\* succeeds, reserved() then contains new and not old; if the protected section
\* raises, reserved() then contains old and not new.
C9_Change ==
    [][\A p \in Callers :
          (Ends(p) /\ HasOld(p) /\ undisturbed[p] /\ oldKept[p]) =>
              /\ result'[p] = "ok" =>
                     /\ rid[p] \in Reserved(store', prefix)
                     /\ oid[p] \notin Reserved(store', prefix)
              /\ exc[p] = "SectionError" =>
                     /\ oid[p] \in Reserved(store', prefix)
                     /\ rid[p] \notin Reserved(store', prefix)]_vars

C9_Witness ==
    /\ HasOld("c1") /\ rpc["c1"] = "done" /\ result["c1"] = "ok"
    /\ rop["c2"] = "none"
    /\ ~prefix.isNone
    /\ rid["c1"] \in Reserved(store, prefix) /\ oid["c1"] \notin Reserved(store, prefix)

\* reservation_change(new, old), new # old, is about to release old or is
\* releasing it, and nobody else has changed new's reservation.
Releasing(p) == HasOld(p) /\ rpc[p] \in {"rel_get", "rel_delete"} /\ undisturbed[p]

Moves(p) == rpc'[p] # rpc[p]

\* C11: reservation_change(new_id, old_id) with new_id = old_id runs the
\* protected section and sends nothing to the database: none of its steps
\* creates, updates or deletes a document, whether the section completes (the
\* call returns) or raises (the section's error reaches the caller).
C11_ChangeSame ==
    [][\A p \in Callers :
          (Moves(p) /\ rop'[p] = "change" /\ rid'[p] = oid'[p]) =>
              /\ store' = store
              /\ rpc'[p] \in {"section", "done"}
              /\ rpc'[p] = "done" => result'[p] \in {"ok", "SectionError"}]_vars

C11_Witness ==
    /\ rop["c1"] = "change" /\ rid["c1"] = oid["c1"]
    /\ rpc["c1"] = "done" /\ result["c1"] = "SectionError"
    /\ store[NewDoc("c1")].exists
    /\ rop["c2"] = "none"

\* C16: reserve(id) succeeds exactly when prefix+id has no document and
\* otherwise raises AlreadyExists, leaving the database as it was; release(id)
\* fetches prefix+id, and deletes it when it is there (and nobody has changed
\* it since the fetch), after which a reserve(id) would succeed; a release of
\* an absent id fails and changes nothing.
C16_ReserveRelease ==
    [][\A p \in Callers :
          /\ (Moves(p) /\ rop[p] = "reserve" /\ rpc[p] = "create") =>
                 IF store[AddPrefix(prefix, rid[p])].exists
                 THEN rpc'[p] = "done" /\ result'[p] = "AlreadyExists" /\ store' = store
                 ELSE rpc'[p] = "get" /\ store'[AddPrefix(prefix, rid[p])].exists
          /\ (Moves(p) /\ rop[p] = "reserve" /\ rpc[p] = "get" /\ undisturbed[p]) =>
                 result'[p] = "ok" /\ store' = store
          /\ (Moves(p) /\ rop[p] = "release" /\ rpc[p] = "rel_get") =>
                 reldoc'[p].isNone = ~store[AddPrefix(prefix, rid[p])].exists
          /\ (Moves(p) /\ rop[p] = "release" /\ rpc[p] = "rel_delete") =>
                 IF ~reldoc[p].isNone /\ reldoc[p].fresh
                 THEN /\ result'[p] = "ok"
                      /\ ~CreateConflicts(store', AddPrefix(prefix, rid[p]))
                 ELSE result'[p] = "ReleaseError" /\ store' = store]_vars

C16_Witness ==
    /\ rop["c1"] = "release" /\ rpc["c1"] = "done" /\ result["c1"] = "ok"
    /\ rop["c2"] = "reserve" /\ rpc["c2"] = "done" /\ result["c2"] = "AlreadyExists"
    /\ rid["c1"] = rid["c2"]
    /\ ~prefix.isNone
    /\ ~store[NewDoc("c2")].exists

\* C17: the protected section's error is being unwound and the rollback delete
\* of line 45 fails: the caller observes the error that entered the except
\* clause, never the delete's.
C17_OriginalErrorSurvives ==
    [][\A p \in Callers :
          (rpc[p] = "rollback" /\ Ends(p)) => result'[p] = exc[p]]_vars

\* C19: a reservation(id) that finds id reserved raises AlreadyExists from its
\* create, before the protected section, and that is its only request: the
\* database is left as it was, and the holder's copy of the reservation
\* document is still the current revision.
C19_LoserChangesNothing ==
    [][\A p \in Callers :
          (Moves(p) /\ rop[p] = "reservation" /\ rpc[p] = "create"
               /\ store[NewDoc(p)].exists) =>
              /\ rpc'[p] = "done"
              /\ result'[p] = "AlreadyExists"
              /\ store' = store
              /\ \A q \in Callers \ {p} :
                    rdoc'[q] = rdoc[q] /\ undisturbed'[q] = undisturbed[q]]_vars

C19_Witness ==
    /\ rop["c2"] = "reservation" /\ rpc["c2"] = "confirm" /\ undisturbed["c2"]
    /\ rdoc["c2"].fresh /\ rdoc["c2"].lease
    /\ store[NewDoc("c2")].exists /\ store[NewDoc("c2")].lease
    /\ rop["c1"] = "reservation" /\ NewDoc("c1") = NewDoc("c2")
    /\ rpc["c1"] = "done" /\ result["c1"] = "AlreadyExists"

====
